---- MODULE Spec2Model ----
(***************************************************************************)
(* isle.py: the Shibboleth welcome CGI script of isle-server.  One run of  *)
(* the script reads the SAML headers from the environment, adds a time and *)
(* a salt, hashes them with the shared secret into a token, base64-encodes *)
(* the claims and prints a redirect.                                       *)
(*                                                                         *)
(* Strings are Python 2 byte strings: sequences of symbols [c, d] where c  *)
(* is the byte value.  The hex digest of SHA-256 is kept as one opaque     *)
(* symbol (c = -1) that carries the hashed message in d, i.e. the hash is  *)
(* collision free and reveals nothing but equality of its input.           *)
(***************************************************************************)
EXTENDS Integers, Sequences, FiniteSets, TLC

\* ------------------------------------------------------------------ bounds
\* longest HTTP_EPPN value enumerated in a single invocation
MaxLen == 2

\* ----------------------------------------------------------------- strings
Ch(b) == [c |-> b, d |-> <<>>]
Str(bs) == [i \in 1..Len(bs) |-> Ch(bs[i])]
Bytes(s) == [i \in 1..Len(s) |-> s[i].c]

\* a value that is no string: a key missing from os.environ, an unset local
Absent == <<[c |-> -9, d |-> <<>>]>>

RECURSIVE Concat(_)
Concat(ss) == IF Len(ss) = 0 THEN <<>> ELSE Head(ss) \o Concat(Tail(ss))

IsPrefix(p, s) == Len(p) <= Len(s) /\ SubSeq(s, 1, Len(p)) = p

\* ------------------------------------------------------- program constants
SALT_LENGTH == 4
\* 'https://isle.stat.cmu.edu/#/shibboleth'
REDIRECT_TARGET == Str(<<104, 116, 116, 112, 115, 58, 47, 47, 105, 115, 108,
    101, 46, 115, 116, 97, 116, 46, 99, 109, 117, 46, 101, 100, 117, 47, 35,
    47, 115, 104, 105, 98, 98, 111, 108, 101, 116, 104>>)

\* ---------------------------------------------------------- str.format
Lit(bs) == [lit |-> Str(bs), field |-> ""]
Fld(name) == [lit |-> <<>>, field |-> name]

\* str.format(**kw): literal text copied, {name} replaced by kw[name]
Format(pat, kw) ==
  Concat([i \in 1..Len(pat) |->
            IF pat[i].field = "" THEN pat[i].lit ELSE kw[pat[i].field]])

\* the pattern with {salt} left out
pattern_without_salt ==
  << Fld("time"), Lit(<<32, 58, 58, 32>>),
     Fld("secret"), Lit(<<32, 58, 58, 32>>), Fld("eppn"), Lit(<<32, 58, 58, 32>>),
     Fld("displayName"), Lit(<<32, 58, 58, 32>>), Fld("affiliation"),
     Lit(<<32, 58, 58, 32, 73, 83, 76, 69, 32, 82, 79, 67, 75, 83, 33>>) >>

\* "{time} :: {salt} :: {secret} :: {eppn} :: {displayName} :: {affiliation} :: ISLE ROCKS!"
pattern ==
  << Fld("time"), Lit(<<32, 58, 58, 32>>), Fld("salt"), Lit(<<32, 58, 58, 32>>),
     Fld("secret"), Lit(<<32, 58, 58, 32>>), Fld("eppn"), Lit(<<32, 58, 58, 32>>),
     Fld("displayName"), Lit(<<32, 58, 58, 32>>), Fld("affiliation"),
     Lit(<<32, 58, 58, 32, 73, 83, 76, 69, 32, 82, 79, 67, 75, 83, 33>>) >>

\* the query string with salt before time
q_salt_first ==
  << Lit(<<116, 111, 107, 101, 110, 61>>), Fld("token"),
     Lit(<<38, 115, 97, 108, 116, 61>>), Fld("salt"),
     Lit(<<38, 116, 105, 109, 101, 61>>), Fld("time"),
     Lit(<<38, 101, 112, 112, 110, 61>>), Fld("eppn"),
     Lit(<<38, 110, 97, 109, 101, 61>>), Fld("displayName"),
     Lit(<<38, 97, 102, 102, 105, 108, 61>>), Fld("affiliation"),
     Lit(<<38, 117, 114, 108, 61>>), Fld("url") >>

\* "token={token}&time={time}&salt={salt}&eppn={eppn}&name={displayName}&affil={affiliation}&url={url}"
q ==
  << Lit(<<116, 111, 107, 101, 110, 61>>), Fld("token"),
     Lit(<<38, 116, 105, 109, 101, 61>>), Fld("time"),
     Lit(<<38, 115, 97, 108, 116, 61>>), Fld("salt"),
     Lit(<<38, 101, 112, 112, 110, 61>>), Fld("eppn"),
     Lit(<<38, 110, 97, 109, 101, 61>>), Fld("displayName"),
     Lit(<<38, 97, 102, 102, 105, 108, 61>>), Fld("affiliation"),
     Lit(<<38, 117, 114, 108, 61>>), Fld("url") >>

\* ------------------------------------------------------------------ codecs
\* 'A'..'Z' 'a'..'z' '0'..'9' '-' '_'
UrlsafeAlphabet ==
  <<65, 66, 67, 68, 69, 70, 71, 72, 73, 74, 75, 76, 77, 78, 79, 80, 81, 82,
    83, 84, 85, 86, 87, 88, 89, 90, 97, 98, 99, 100, 101, 102, 103, 104, 105,
    106, 107, 108, 109, 110, 111, 112, 113, 114, 115, 116, 117, 118, 119,
    120, 121, 122, 48, 49, 50, 51, 52, 53, 54, 55, 56, 57, 45, 95>>

Sextet(n, k) == UrlsafeAlphabet[((n \div (64 ^ (3 - k))) % 64) + 1]

RECURSIVE b2a_base64(_)
b2a_base64(b) ==
  IF Len(b) = 0 THEN <<>>
  ELSE IF Len(b) = 1 THEN
    LET n == b[1] * 65536 IN <<Sextet(n, 0), Sextet(n, 1), 61, 61>>
  ELSE IF Len(b) = 2 THEN
    LET n == b[1] * 65536 + b[2] * 256
    IN <<Sextet(n, 0), Sextet(n, 1), Sextet(n, 2), 61>>
  ELSE
    LET n == b[1] * 65536 + b[2] * 256 + b[3]
    IN <<Sextet(n, 0), Sextet(n, 1), Sextet(n, 2), Sextet(n, 3)>>
         \o b2a_base64(SubSeq(b, 4, Len(b)))

urlsafe_b64encode(s) == Str(b2a_base64(Bytes(s)))

\* what urlsafe_b64decode raises TypeError for
B64Error == <<[c |-> -2, d |-> <<>>]>>

\* value of a base64 digit; '-' and '_' are translated to '+' and '/',
\* which stay valid themselves; -1 for '=' and for anything else
DigitValue(ch) ==
  IF ch = 43 THEN 62
  ELSE IF ch = 47 THEN 63
  ELSE IF \E i \in 1..64 : UrlsafeAlphabet[i] = ch
       THEN (CHOOSE i \in 1..64 : UrlsafeAlphabet[i] = ch) - 1
       ELSE -1

RECURSIVE a2b_base64(_)
a2b_base64(a) ==
  IF Len(a) = 0 THEN <<>>
  ELSE IF Len(a) < 4 THEN <<-2>>
  ELSE
    LET v == [k \in 1..4 |-> DigitValue(a[k])]
        n == v[1] * 262144 + v[2] * 4096
    IN IF v[1] < 0 \/ v[2] < 0 THEN <<-2>>
       ELSE IF a[3] = 61 /\ a[4] = 61 THEN <<n \div 65536>>
       ELSE IF v[3] < 0 THEN <<-2>>
       ELSE IF a[4] = 61 THEN
         LET m == n + v[3] * 64 IN <<m \div 65536, (m \div 256) % 256>>
       ELSE IF v[4] < 0 THEN <<-2>>
       ELSE
         LET m == n + v[3] * 64 + v[4]
             rest == a2b_base64(SubSeq(a, 5, Len(a)))
         IN IF rest = <<-2>> THEN <<-2>>
            ELSE <<m \div 65536, (m \div 256) % 256, m % 256>> \o rest

\* characters that are neither digits nor '=' are skipped by the decoder
urlsafe_b64decode(s) ==
  LET a == SelectSeq(Bytes(s), LAMBDA ch : ch = 61 \/ DigitValue(ch) >= 0)
      b == a2b_base64(a)
  IN IF b = <<-2>> THEN B64Error ELSE Str(b)

\* '0'..'9' 'a'..'f'
HexDigits == <<48, 49, 50, 51, 52, 53, 54, 55, 56, 57, 97, 98, 99, 100, 101, 102>>

\* str.encode('hex')
HexEncode(bs) ==
  Str(Concat([i \in 1..Len(bs) |->
                <<HexDigits[(bs[i] \div 16) + 1], HexDigits[(bs[i] % 16) + 1]>>]))

RECURSIVE Decimal(_)
Decimal(n) == IF n < 10 THEN <<48 + n>> ELSE Decimal(n \div 10) \o <<48 + (n % 10)>>

\* "{:f}".format(t) for t = sec + usec / 10^6: six digits after the point
FormatF(t) ==
  Str(Decimal(t.sec) \o <<46>> \o
      [k \in 1..6 |-> 48 + ((t.usec \div (10 ^ (6 - k))) % 10)])

\* hashlib.sha256(); update(msg); digest().encode('hex')
sha256_hexdigest(msg) == <<[c |-> -1, d |-> msg]>>

\* str.strip(): ' ', '\t', '\n', '\r', '\x0b', '\x0c'
Whitespace == {32, 9, 10, 13, 11, 12}

RECURSIVE lstrip(_)
lstrip(s) == IF Len(s) > 0 /\ s[1].c \in Whitespace THEN lstrip(Tail(s)) ELSE s

RECURSIVE rstrip(_)
rstrip(s) ==
  IF Len(s) > 0 /\ s[Len(s)].c \in Whitespace
  THEN rstrip(SubSeq(s, 1, Len(s) - 1)) ELSE s

strip(s) == rstrip(lstrip(s))

\* ------------------------------------------------------------------- state
\* two invocations of the script are enough to compare runs
Runs == {1, 2}

VARIABLES
  adata,         \* the file RESOURCE_DIR + 'adata': [readable, content]
  environ,       \* environ[r]: os.environ of invocation r
  pc,            \* pc[r]: the statement invocation r executes next
  attrs,         \* attrs[r]: the dict saml_attrs = req_attrs = request_data
  secret,        \* secret[r]: the local `secret` of add_token
  redirect_url,  \* redirect_url[r]
  stdout,        \* stdout[r]: what invocation r has printed
  exc            \* exc[r]: the exception that ended invocation r, if any

vars == <<adata, environ, pc, attrs, secret, redirect_url, stdout, exc>>

Required == {"HTTP_EPPN", "HTTP_DISPLAYNAME", "HTTP_AFFILIATION"}

\* ------------------------------------------------------ the script's functions
\* extraction that reads every header with os.environ.get(k, '')
extract_saml_attrs_lenient(env) ==
  LET get(k) == IF env[k] = Absent THEN <<>> ELSE env[k]
  IN [raised |-> "",
      value |-> ("eppn" :> get("HTTP_EPPN")) @@
                ("displayName" :> get("HTTP_DISPLAYNAME")) @@
                ("affiliation" :> get("HTTP_AFFILIATION")) @@
                ("url" :> get("QUERY_STRING"))]

\* os.environ[k] raises KeyError for a missing key, os.environ.get does not
extract_saml_attrs(env) ==
  IF \E k \in Required : env[k] = Absent
  THEN [raised |-> "KeyError", value |-> <<>>]
  ELSE [raised |-> "",
        value |-> ("eppn" :> env["HTTP_EPPN"]) @@
                  ("displayName" :> env["HTTP_DISPLAYNAME"]) @@
                  ("affiliation" :> env["HTTP_AFFILIATION"]) @@
                  ("url" :> IF env["QUERY_STRING"] = Absent
                            THEN <<>> ELSE env["QUERY_STRING"])]

\* t is the reading of time.time(), rnd the bytes of os.urandom(SALT_LENGTH)
add_instance_attrs(a, t, rnd) ==
  ("time" :> FormatF(t)) @@ ("salt" :> HexEncode(rnd)) @@ a

\* a read that falls back to the empty secret when the file cannot be read
read_secret_default(file) ==
  [raised |-> "", value |-> IF file.readable THEN strip(file.content) ELSE <<>>]

\* open() raises IOError when the file cannot be read
read_secret(file) ==
  IF file.readable
  THEN [raised |-> "", value |-> strip(file.content)]
  ELSE [raised |-> "IOError", value |-> Absent]

\* a token over the claims as they are sent, base64-encoded
add_token_over_encoded(a, sec) ==
  LET token == Format(pattern,
                      ("secret" :> sec) @@
                      [a EXCEPT !["eppn"] = urlsafe_b64encode(a["eppn"]),
                                !["displayName"] = urlsafe_b64encode(a["displayName"]),
                                !["affiliation"] = urlsafe_b64encode(a["affiliation"])])
  IN ("token" :> sha256_hexdigest(token)) @@ a

\* add_token that keeps the secret in the attribute map it formats
add_token_keeping_secret(a, sec) ==
  LET kw == ("secret" :> sec) @@ a
  IN ("token" :> sha256_hexdigest(Format(pattern, kw))) @@ kw

\* add_token after its call of read_secret: the local `token` is the
\* formatted pattern, attrs['token'] its hex digest
add_token(a, sec) ==
  LET token == Format(pattern, ("secret" :> sec) @@ a)
  IN ("token" :> sha256_hexdigest(token)) @@ a

\* url encoded from the wrong field
encode_attributes_url_from_eppn(a) ==
  [a EXCEPT !["eppn"] = urlsafe_b64encode(a["eppn"]),
            !["displayName"] = urlsafe_b64encode(a["displayName"]),
            !["affiliation"] = urlsafe_b64encode(a["affiliation"]),
            !["url"] = urlsafe_b64encode(a["eppn"])]

\* salt encoded like the claims
encode_attributes_salt_too(a) ==
  [a EXCEPT !["eppn"] = urlsafe_b64encode(a["eppn"]),
            !["displayName"] = urlsafe_b64encode(a["displayName"]),
            !["affiliation"] = urlsafe_b64encode(a["affiliation"]),
            !["url"] = urlsafe_b64encode(a["url"]),
            !["salt"] = urlsafe_b64encode(a["salt"])]

encode_attributes(a) ==
  [a EXCEPT !["eppn"] = urlsafe_b64encode(a["eppn"]),
            !["displayName"] = urlsafe_b64encode(a["displayName"]),
            !["affiliation"] = urlsafe_b64encode(a["affiliation"]),
            !["url"] = urlsafe_b64encode(a["url"]),
            !["salt"] = a["salt"],
            !["token"] = a["token"]]

query_string(a) == Format(q, a)

\* print("Location: {}\r\n".format(target_url))
redirected_output(a, target_url) ==
  Str(<<76, 111, 99, 97, 116, 105, 111, 110, 58, 32>>) \o target_url
    \o Str(<<13, 10, 10>>)

\* cgitb.enable(): an uncaught exception prints an HTML traceback page,
\* of which the header is kept: "Content-Type: text/html\n\n"
cgitb_page ==
  Str(<<67, 111, 110, 116, 101, 110, 116, 45, 84, 121, 112, 101, 58, 32,
        116, 101, 120, 116, 47, 104, 116, 109, 108, 10, 10>>)

\* time.time(): wall-clock readings; nothing orders two readings
ClockReadings == {[sec |-> 9, usec |-> 999999], [sec |-> 1700000000, usec |-> 42]}

\* os.urandom(n): n random bytes
urandom(n) == {s \in {<<222, 173, 190, 239>>, <<0, 1, 2, 255>>} : Len(s) = n}

\* ----------------------------------------------------------------- actions
Raise(r, e) ==
  /\ exc' = [exc EXCEPT ![r] = e]
  /\ stdout' = [stdout EXCEPT ![r] = cgitb_page]
  /\ pc' = [pc EXCEPT ![r] = "failed"]

\* saml_attrs = extract_saml_attrs(os.environ)
ExtractSamlAttrs(r) ==
  /\ pc[r] = "extract_saml_attrs"
  /\ LET res == extract_saml_attrs(environ[r])
     IN IF res.raised # ""
        THEN Raise(r, res.raised) /\ UNCHANGED attrs
        ELSE /\ attrs' = [attrs EXCEPT ![r] = res.value]
             /\ pc' = [pc EXCEPT ![r] = "add_instance_attrs"]
             /\ UNCHANGED <<exc, stdout>>
  /\ UNCHANGED <<adata, environ, secret, redirect_url>>

\* req_attrs = add_instance_attrs(saml_attrs)
AddInstanceAttrs(r) ==
  /\ pc[r] = "add_instance_attrs"
  /\ \E t \in ClockReadings, rnd \in urandom(SALT_LENGTH) :
       attrs' = [attrs EXCEPT ![r] = add_instance_attrs(attrs[r], t, rnd)]
  /\ pc' = [pc EXCEPT ![r] = "read_secret"]
  /\ UNCHANGED <<adata, environ, secret, redirect_url, stdout, exc>>

\* add_token(req_attrs), up to and including secret = read_secret()
ReadSecret(r) ==
  /\ pc[r] = "read_secret"
  /\ LET res == read_secret(adata)
     IN IF res.raised # ""
        THEN Raise(r, res.raised) /\ UNCHANGED secret
        ELSE /\ secret' = [secret EXCEPT ![r] = res.value]
             /\ pc' = [pc EXCEPT ![r] = "add_token"]
             /\ UNCHANGED <<exc, stdout>>
  /\ UNCHANGED <<adata, environ, attrs, redirect_url>>

\* add_token(req_attrs), the rest
AddToken(r) ==
  /\ pc[r] = "add_token"
  /\ attrs' = [attrs EXCEPT ![r] = add_token(attrs[r], secret[r])]
  /\ pc' = [pc EXCEPT ![r] = "encode_attributes"]
  /\ UNCHANGED <<adata, environ, secret, redirect_url, stdout, exc>>

\* request_data = encode_attributes(...)
EncodeAttributes(r) ==
  /\ pc[r] = "encode_attributes"
  /\ attrs' = [attrs EXCEPT ![r] = encode_attributes(attrs[r])]
  /\ pc' = [pc EXCEPT ![r] = "query_string"]
  /\ UNCHANGED <<adata, environ, secret, redirect_url, stdout, exc>>

\* redirect_url = REDIRECT_TARGET + "?" + query_string(request_data)
QueryString(r) ==
  /\ pc[r] = "query_string"
  /\ redirect_url' = [redirect_url EXCEPT ![r] =
                        REDIRECT_TARGET \o Str(<<63>>) \o query_string(attrs[r])]
  /\ pc' = [pc EXCEPT ![r] = "redirected_output"]
  /\ UNCHANGED <<adata, environ, attrs, secret, stdout, exc>>

\* redirected_output(request_data, redirect_url)
RedirectedOutput(r) ==
  /\ pc[r] = "redirected_output"
  /\ stdout' = [stdout EXCEPT ![r] = redirected_output(attrs[r], redirect_url[r])]
  /\ pc' = [pc EXCEPT ![r] = "exit"]
  /\ UNCHANGED <<adata, environ, attrs, secret, redirect_url, exc>>

Next ==
  \E r \in Runs :
    \/ ExtractSamlAttrs(r)
    \/ AddInstanceAttrs(r)
    \/ ReadSecret(r)
    \/ AddToken(r)
    \/ EncodeAttributes(r)
    \/ QueryString(r)
    \/ RedirectedOutput(r)

\* ------------------------------------------------------------------ inputs
\* bytes of the enumerated header values: 'a', and 0xfb, 0xff whose base64
\* digits are '-' and '_'
InputBytes == {97, 251, 255}

StringsUpTo(n) == {Str(b) : b \in UNION {[1..k -> InputBytes] : k \in 0..n}}

\* 'a :: b', 'c', 'b :: c', 'staff', 'x&y=1'
EppnValues == StringsUpTo(MaxLen) \cup {Str(<<97, 32, 58, 58, 32, 98>>)}
DisplayNameValues == {<<>>, Str(<<99>>), Str(<<98, 32, 58, 58, 32, 99>>)}
AffiliationValues == {Str(<<115, 116, 97, 102, 102>>)}
QueryStrings == {<<>>, Str(<<120, 38, 121, 61, 49>>)}

Environs(eppns, names, affils, urls) ==
  [HTTP_EPPN : eppns, HTTP_DISPLAYNAME : names, HTTP_AFFILIATION : affils,
   QUERY_STRING : urls]

\* unreadable; empty; ' \n'; 's3cr3t\n'
SecretFiles ==
  {[readable |-> FALSE, content |-> <<>>],
   [readable |-> TRUE, content |-> <<>>],
   [readable |-> TRUE, content |-> Str(<<32, 10>>)],
   [readable |-> TRUE, content |-> Str(<<115, 51, 99, 114, 51, 116, 10>>)]}

NoEnviron ==
  [HTTP_EPPN |-> Absent, HTTP_DISPLAYNAME |-> Absent,
   HTTP_AFFILIATION |-> Absent, QUERY_STRING |-> Absent]

Fresh ==
  /\ attrs = [r \in Runs |-> <<>>]
  /\ secret = [r \in Runs |-> Absent]
  /\ redirect_url = [r \in Runs |-> <<>>]
  /\ stdout = [r \in Runs |-> <<>>]
  /\ exc = [r \in Runs |-> ""]

\* one invocation, over the full range of headers
Init ==
  /\ adata \in SecretFiles
  /\ \E e \in Environs(EppnValues \cup {Absent}, DisplayNameValues \cup {Absent},
                       AffiliationValues \cup {Absent}, QueryStrings \cup {Absent}) :
       environ = [r \in Runs |-> IF r = 1 THEN e ELSE NoEnviron]
  /\ pc = [r \in Runs |-> IF r = 1 THEN "extract_saml_attrs" ELSE "not_invoked"]
  /\ Fresh

Spec == Init /\ [][Next]_vars

\* two independent invocations sharing the secret file
PairEnvirons ==
  Environs({Str(<<97>>), Str(<<97, 32, 58, 58, 32, 98>>)},
           {Str(<<99>>), Str(<<98, 32, 58, 58, 32, 99>>)},
           AffiliationValues \cup {Absent},
           {Absent, Str(<<120, 38, 121, 61, 49>>)})

InitPair ==
  /\ adata \in SecretFiles
  /\ environ \in [Runs -> PairEnvirons]
  /\ pc = [r \in Runs |-> "extract_saml_attrs"]
  /\ Fresh

SpecPair == InitPair /\ [][Next]_vars

TypeOK ==
  /\ \A r \in Runs :
       pc[r] \in {"not_invoked", "extract_saml_attrs", "add_instance_attrs",
                  "read_secret", "add_token", "encode_attributes",
                  "query_string", "redirected_output", "exit", "failed"}
  /\ \A r \in Runs : exc[r] \in {"", "KeyError", "IOError"}

\* ------------------------------------------------- reading the response
EmitsLocation(r) ==
  IsPrefix(Str(<<76, 111, 99, 97, 116, 105, 111, 110, 58, 32>>), stdout[r])

\* the value of the Location header printed by run r
LocationOf(r) == SubSeq(stdout[r], 11, Len(stdout[r]) - 3)

\* position of the first byte ch in s, 0 when there is none
FirstIndex(s, ch) ==
  IF \E i \in 1..Len(s) : s[i].c = ch
  THEN CHOOSE i \in 1..Len(s) :
         s[i].c = ch /\ \A j \in 1..(i - 1) : s[j].c # ch
  ELSE 0

RECURSIVE SplitOn(_, _)
SplitOn(s, ch) ==
  LET i == FirstIndex(s, ch)
  IN IF i = 0 THEN <<s>>
     ELSE <<SubSeq(s, 1, i - 1)>> \o SplitOn(SubSeq(s, i + 1, Len(s)), ch)

\* the text after the first '?', cut at every '&'
QueryParts(url) ==
  SplitOn(SubSeq(url, FirstIndex(url, 63) + 1, Len(url)), 38)

ParamName(part) == SubSeq(part, 1, FirstIndex(part, 61) - 1)
ParamValue(part) == SubSeq(part, FirstIndex(part, 61) + 1, Len(part))

\* the value of the first parameter called name; Absent when there is none
Param(url, name) ==
  LET ps == QueryParts(url)
      hits == {i \in 1..Len(ps) : FirstIndex(ps[i], 61) > 0 /\ ParamName(ps[i]) = name}
  IN IF hits = {} THEN Absent
     ELSE ParamValue(ps[CHOOSE i \in hits : \A j \in hits : i <= j])

\* 'token', 'time', 'salt', 'eppn', 'name', 'affil', 'url'
ParamNames ==
  << Str(<<116, 111, 107, 101, 110>>), Str(<<116, 105, 109, 101>>),
     Str(<<115, 97, 108, 116>>), Str(<<101, 112, 112, 110>>),
     Str(<<110, 97, 109, 101>>), Str(<<97, 102, 102, 105, 108>>),
     Str(<<117, 114, 108>>) >>

\* the string the token is specified to be the digest of
Sep == Str(<<32, 58, 58, 32>>)
CanonicalString(time, salt, sec, eppn, displayName, affiliation) ==
  time \o Sep \o salt \o Sep \o sec \o Sep \o eppn \o Sep \o displayName
    \o Sep \o affiliation \o Sep \o Str(<<73, 83, 76, 69, 32, 82, 79, 67, 75, 83, 33>>)

Invoked(r) == pc[r] # "not_invoked"
MissingHeader(r) == \E k \in Required : environ[r][k] = Absent
HasKey(r, k) == k \in DOMAIN attrs[r]
Started == {"add_token", "encode_attributes", "query_string", "redirected_output", "exit"}

\* ------------------------------------------------------------------ claims
\* C1: a run whose environment lacks HTTP_EPPN, HTTP_DISPLAYNAME or
\* HTTP_AFFILIATION never gets past claim extraction: it never reads the
\* secret, never has a token, never prints a Location header, and when it
\* has ended it has ended with the KeyError of extract_saml_attrs.
C1_MissingHeaderFatal ==
  \A r \in Runs :
    (Invoked(r) /\ MissingHeader(r)) =>
      /\ pc[r] \in {"extract_saml_attrs", "failed"}
      /\ pc[r] = "failed" => exc[r] = "KeyError"
      /\ attrs[r] = <<>>
      /\ secret[r] = Absent
      /\ redirect_url[r] = <<>>
      /\ ~EmitsLocation(r)

C1_Witness ==
  \E r \in Runs :
    /\ environ[r]["HTTP_DISPLAYNAME"] = Absent
    /\ environ[r]["HTTP_EPPN"] # Absent
    /\ pc[r] = "failed"
    /\ exc[r] = "KeyError"
    /\ adata.readable

\* C2: while the file adata cannot be read, no run gets past read_secret:
\* attrs never has a token, encode_attributes and query_string are never
\* reached, no Location header is printed, and a run that reached the read
\* has ended with IOError without a secret.
C2_UnreadableSecretFatal ==
  \A r \in Runs :
    ~adata.readable =>
      /\ ~HasKey(r, "token")
      /\ pc[r] \notin Started
      /\ secret[r] = Absent
      /\ redirect_url[r] = <<>>
      /\ ~EmitsLocation(r)
      /\ (pc[r] = "failed" /\ ~MissingHeader(r)) => exc[r] = "IOError"

C2_Witness ==
  \E r \in Runs :
    /\ ~adata.readable
    /\ pc[r] = "failed"
    /\ exc[r] = "IOError"
    /\ HasKey(r, "salt")

\* C3: a run whose secret file is readable but empty after stripping fails
\* and prints no Location header.
C3_EmptySecretFatal ==
  \A r \in Runs :
    (adata.readable /\ strip(adata.content) = <<>>) =>
      /\ pc[r] \notin Started
      /\ ~EmitsLocation(r)

\* the raw claims of run r as the environment gave them
RawUrl(r) ==
  IF environ[r]["QUERY_STRING"] = Absent THEN <<>> ELSE environ[r]["QUERY_STRING"]

\* the digest a verifier holding sec computes from the parameters of url
VerifierToken(url, sec) ==
  sha256_hexdigest(
    CanonicalString(Param(url, ParamNames[2]), Param(url, ParamNames[3]), sec,
                    urlsafe_b64decode(Param(url, ParamNames[4])),
                    urlsafe_b64decode(Param(url, ParamNames[5])),
                    urlsafe_b64decode(Param(url, ParamNames[6]))))

\* C4: in a run that has printed its redirect, the token parameter is the
\* hex digest of time :: salt :: secret :: eppn :: displayName ::
\* affiliation :: ISLE ROCKS! over the raw header values, and it is the
\* digest a verifier recomputes from the time and salt parameters taken
\* verbatim and the base64url-decoded eppn, name and affil parameters.
C4_TokenVerifiable ==
  \A r \in Runs :
    pc[r] = "exit" =>
      LET url == LocationOf(r)
      IN /\ Param(url, ParamNames[1]) =
              sha256_hexdigest(
                CanonicalString(Param(url, ParamNames[2]), Param(url, ParamNames[3]),
                                strip(adata.content), environ[r]["HTTP_EPPN"],
                                environ[r]["HTTP_DISPLAYNAME"],
                                environ[r]["HTTP_AFFILIATION"]))
         /\ Param(url, ParamNames[1]) = VerifierToken(url, strip(adata.content))

C4_Witness ==
  \E r \in Runs :
    /\ pc[r] = "exit"
    /\ environ[r]["HTTP_EPPN"] = Str(<<251, 255>>)
    /\ environ[r]["HTTP_DISPLAYNAME"] = Str(<<98, 32, 58, 58, 32, 99>>)
    /\ strip(adata.content) # <<>>

\* the fields of the ClaimSet of run r, raw
ClaimSet(r) ==
  << environ[r]["HTTP_EPPN"], environ[r]["HTTP_DISPLAYNAME"],
     environ[r]["HTTP_AFFILIATION"], RawUrl(r), attrs[r]["time"],
     attrs[r]["salt"], secret[r] >>

\* C5: two runs whose ClaimSets differ in one of eppn, displayName,
\* affiliation, url, time, salt or secret hash different strings, hence
\* have different tokens.
C5_TokenCoversAllFields ==
  \A r1 \in Runs : \A r2 \in Runs :
    (HasKey(r1, "token") /\ HasKey(r2, "token") /\ ClaimSet(r1) # ClaimSet(r2))
      => attrs[r1]["token"] # attrs[r2]["token"]

\* C6: the secret is never a field of the attribute map, and a printed
\* response is either the traceback page or "Location: " followed by the
\* base URL, '?' and the seven parameters, where the token is a digest and
\* every other value is made from the environment, the clock or the random
\* bytes alone.
C6_SecretNotInOutput ==
  \A r \in Runs :
    /\ "secret" \notin DOMAIN attrs[r]
    /\ stdout[r] # <<>> =>
         \/ stdout[r] = cgitb_page
         \/ \E t \in ClockReadings, rnd \in urandom(SALT_LENGTH) :
              LET url == LocationOf(r)
                  ps == QueryParts(url)
              IN /\ EmitsLocation(r)
                 /\ IsPrefix(REDIRECT_TARGET \o Str(<<63>>), url)
                 /\ [i \in 1..Len(ps) |-> ParamName(ps[i])] = ParamNames
                 /\ Len(ParamValue(ps[1])) = 1
                 /\ ParamValue(ps[1])[1].c = -1
                 /\ ParamValue(ps[2]) = FormatF(t)
                 /\ ParamValue(ps[3]) = HexEncode(rnd)
                 /\ ParamValue(ps[4]) = urlsafe_b64encode(environ[r]["HTTP_EPPN"])
                 /\ ParamValue(ps[5]) = urlsafe_b64encode(environ[r]["HTTP_DISPLAYNAME"])
                 /\ ParamValue(ps[6]) = urlsafe_b64encode(environ[r]["HTTP_AFFILIATION"])
                 /\ ParamValue(ps[7]) = urlsafe_b64encode(RawUrl(r))

C6_Witness ==
  \E r \in Runs :
    /\ pc[r] = "exit"
    /\ EmitsLocation(r)
    /\ secret[r] = Str(<<115, 51, 99, 114, 51, 116>>)

\* C7: the Location of a finished run is the base URL, '?', and exactly the
\* seven parameters token, time, salt, eppn, name, affil, url in this
\* order; token, time and salt are never empty, and eppn, name, affil, url
\* are not empty when the header (the query string) is not.
C7_SevenParameters ==
  \A r \in Runs :
    pc[r] = "exit" =>
      LET url == LocationOf(r)
          ps == QueryParts(url)
          src == << environ[r]["HTTP_EPPN"], environ[r]["HTTP_DISPLAYNAME"],
                    environ[r]["HTTP_AFFILIATION"], RawUrl(r) >>
      IN /\ EmitsLocation(r)
         /\ stdout[r] = Str(<<76, 111, 99, 97, 116, 105, 111, 110, 58, 32>>)
                          \o url \o Str(<<13, 10, 10>>)
         /\ IsPrefix(REDIRECT_TARGET \o Str(<<63>>), url)
         /\ FirstIndex(url, 63) = Len(REDIRECT_TARGET) + 1
         /\ Len(ps) = 7
         /\ \A i \in 1..7 :
              /\ IsPrefix(ParamNames[i] \o Str(<<61>>), ps[i])
              /\ i <= 3 => Len(ParamValue(ps[i])) > 0
              /\ (i > 3 /\ src[i - 3] # <<>>) => Len(ParamValue(ps[i])) > 0

C7_Witness ==
  \E r \in Runs :
    /\ pc[r] = "exit"
    /\ environ[r]["QUERY_STRING"] = Str(<<120, 38, 121, 61, 49>>)
    /\ environ[r]["HTTP_EPPN"] # <<>>

SameTriple(r1, r2) ==
  /\ environ[r1]["HTTP_EPPN"] = environ[r2]["HTTP_EPPN"]
  /\ environ[r1]["HTTP_DISPLAYNAME"] = environ[r2]["HTTP_DISPLAYNAME"]
  /\ environ[r1]["HTTP_AFFILIATION"] = environ[r2]["HTTP_AFFILIATION"]

\* C8 as stated: two invocations with the same claim triple and secret
\* have different salts and different times, and different tokens.
C8_AlwaysFresh ==
  \A r1 \in Runs : \A r2 \in Runs :
    (r1 # r2 /\ SameTriple(r1, r2) /\ HasKey(r1, "salt") /\ HasKey(r2, "salt")) =>
      /\ attrs[r1]["salt"] # attrs[r2]["salt"]
      /\ attrs[r1]["time"] # attrs[r2]["time"]
      /\ (HasKey(r1, "token") /\ HasKey(r2, "token"))
           => attrs[r1]["token"] # attrs[r2]["token"]

\* C8 amended: two invocations with the same claim triple and secret whose
\* salts differ or whose times differ have different tokens.
C8_FreshWhenSaltOrTimeDiffer ==
  \A r1 \in Runs : \A r2 \in Runs :
    (/\ r1 # r2 /\ SameTriple(r1, r2)
     /\ HasKey(r1, "token") /\ HasKey(r2, "token")
     /\ secret[r1] = secret[r2]
     /\ \/ attrs[r1]["salt"] # attrs[r2]["salt"]
        \/ attrs[r1]["time"] # attrs[r2]["time"])
      => attrs[r1]["token"] # attrs[r2]["token"]

C8_Witness ==
  /\ SameTriple(1, 2)
  /\ HasKey(1, "token") /\ HasKey(2, "token")
  /\ attrs[1]["salt"] # attrs[2]["salt"]
  /\ attrs[1]["time"] = attrs[2]["time"]
  /\ environ[1]["QUERY_STRING"] = environ[2]["QUERY_STRING"]

\* C9: the encoding step is reversible and touches nothing else: after it,
\* decoding eppn, displayName, affiliation and url gives the values they
\* had before it, and time, salt and token are the same as before it.
C9_EncodeRoundTrip ==
  [][\A r \in Runs :
       (pc[r] = "encode_attributes" /\ pc'[r] # pc[r]) =>
         /\ DOMAIN attrs'[r] = DOMAIN attrs[r]
         /\ \A k \in {"eppn", "displayName", "affiliation", "url"} :
              urlsafe_b64decode(attrs'[r][k]) = attrs[r][k]
         /\ \A k \in {"time", "salt", "token"} : attrs'[r][k] = attrs[r][k]]_vars

C9_Witness ==
  \E r \in Runs :
    /\ pc[r] = "query_string"
    /\ environ[r]["HTTP_EPPN"] = Str(<<251, 255>>)
    /\ attrs[r]["eppn"] = Str(<<45, 95, 56, 61>>)
    /\ urlsafe_b64decode(attrs[r]["url"]) = Str(<<120, 38, 121, 61, 49>>)

\* the order of the statements of a run
StepOrder ==
  << "extract_saml_attrs", "add_instance_attrs", "read_secret", "add_token",
     "encode_attributes", "query_string", "redirected_output", "exit" >>

\* C10: time and salt are set once, by add_instance_attrs, and keep their
\* values; the token is set by add_token, when time, salt and secret are
\* there; a run moves from each statement to the next one of extraction,
\* time/salt, secret read, token, encoding, redirect (or fails), and only
\* the last of them prints the Location header.
C10_OnceAndInOrder ==
  /\ [](\A r \in Runs :
          /\ HasKey(r, "token") =>
               (HasKey(r, "time") /\ HasKey(r, "salt") /\ secret[r] # Absent)
          /\ EmitsLocation(r) => pc[r] = "exit")
  /\ [][\A r \in Runs :
          /\ pc'[r] # pc[r] =>
               \/ pc'[r] = "failed"
               \/ \E i \in 1..7 : pc[r] = StepOrder[i] /\ pc'[r] = StepOrder[i + 1]
          /\ \A k \in {"time", "salt"} :
               /\ HasKey(r, k) => (k \in DOMAIN attrs'[r] /\ attrs'[r][k] = attrs[r][k])
               /\ (~HasKey(r, k) /\ k \in DOMAIN attrs'[r]) => pc[r] = "add_instance_attrs"
          /\ (~HasKey(r, "token") /\ "token" \in DOMAIN attrs'[r]) => pc[r] = "add_token"
          /\ secret'[r] # secret[r] => (pc[r] = "read_secret" /\ secret[r] = Absent)
          /\ stdout'[r] # stdout[r] =>
               (stdout[r] = <<>> /\ (pc'[r] = "failed" \/ pc[r] = "redirected_output"))]_vars

C10_Witness ==
  \E r \in Runs :
    /\ pc[r] = "exit"
    /\ EmitsLocation(r)
    /\ HasKey(r, "token")
    /\ attrs[r]["salt"] = Str(<<100, 101, 97, 100, 98, 101, 101, 102>>)

====
